---- MODULE Spec2Model ----
(***************************************************************************)
(* Model of the probability notebooks of ds_bookcamp: sample spaces,       *)
(* event conditions, get_matching_event and compute_event_probability      *)
(* (section_1.ipynb), seen as a state machine whose state is the notebook's *)
(* sample spaces together with the parameters, locals and outcome of the   *)
(* last call.                                                              *)
(*                                                                         *)
(* Numbers.  `a / b` on Python ints is true division: it raises            *)
(* ZeroDivisionError when b = 0 and otherwise returns the double nearest   *)
(* to the quotient.  Rounding to nearest is monotone, and it is injective  *)
(* on quotients whose numerator and denominator are far below 2^26, so a   *)
(* returned float is represented by the quotient in lowest terms,          *)
(* [num, den] with den > 0: two floats are equal (ordered) exactly when    *)
(* their fractions are.                                                    *)
(***************************************************************************)
EXTENDS Integers, Sequences, FiniteSets, Bags, TLC

\* Bounds of the model.
NumRolls == 2      \* length of an outcome tuple (repeat=6 in the notebook)
MaxWeight == 2     \* largest weight of a literal weighted sample space
BlockSize == 1024  \* loop passes of generate_coin_sample_space taken as one step
MaxLen == 3        \* longest list passed where a set or a mapping is expected

\* Numbers of the notebook.
NumChildren == 4   \* product(possible_children, repeat=4)
NumFaces == 6      \* possible_rolls = list(range(1, 7))
NumDice == 6       \* product(possible_rolls, repeat=6)
NumIterations == 2000   \* for _ in range(2000)
MoreFlips == 20         \* generate_coin_sample_space(num_flips=20)
DefaultNumFlips == 10  \* def generate_coin_sample_space(num_flips=10)

VARIABLES
    sample_space,           \* the notebook's unweighted sample space, a Python set
    outcome_type,           \* what its outcomes are: "tuple", "number", "coin",
                            \* "children", "six_rolls" or "heads_count"
    weighted_sample_space,  \* the notebook's weighted sample space: key -> weight
    mapping_type,           \* the class of the latter: "dict" or "defaultdict"
    defined,                \* which of the two the notebook has built: "set", "dict"
    pending,                \* outcomes the histogram loop has still to visit
    pc,                     \* the cell or call that ran last
    event_condition,        \* the condition passed to the last call
    passed,                 \* the space passed to it: "set", "dict" or "none"
    condition_args,         \* the values event_condition was applied to in it
    event,                  \* the event computed by the last call
    prob,                   \* the float it returned, NoValue if none
    raised,                 \* the exception it raised, "none" if it returned
    lookup,                 \* the last weighted_sample_space[key]: key and weight
    cursor,                 \* where a pass over a product(...) is: one position
                            \* per factor, <<>> when no such pass runs
    matched,                \* outcomes such a pass has found to match
    visited,                \* outcomes such a pass has visited
    flips,                  \* the list coin_flips of the simulation, up to the
                            \* order of its elements: a bag of flips
    frequencies             \* the list frequencies: its length and newest element

vars == <<sample_space, outcome_type, weighted_sample_space, mapping_type, defined,
          pending, pc, event_condition, passed, condition_args, event, prob,
          raised, lookup, cursor, matched, visited, flips, frequencies>>

\* the notebook's sample spaces
spaces == <<sample_space, outcome_type, weighted_sample_space, mapping_type, defined>>
\* the parameters, locals and outcome of the last call
call == <<event_condition, passed, condition_args, event, prob>>
\* a pass over the outcomes of a product(...)
pass == <<cursor, matched, visited>>
\* the lists of the running-frequency simulation
simulation == <<flips, frequencies>>

(***************************************************************************)
(* Python values                                                           *)
(***************************************************************************)
\* possible_rolls = list(range(1, 7)), cut down to two faces
possible_rolls == {1, 2}

\* set(product(possible_rolls, repeat=NumRolls))
Outcomes == [1..NumRolls -> possible_rolls]

RECURSIVE sum(_)
\* the builtin sum over a tuple or list of ints
sum(xs) == IF xs = <<>> THEN 0 ELSE Head(xs) + sum(Tail(xs))

\* the die-roll totals: every value sum(outcome) can take
Values == {sum(o) : o \in Outcomes}

\* the weights a literal mapping may hold; the data model wants them
\* positive, Python accepts any int
Weights == (0 - 1)..MaxWeight

\* every mapping from some totals to weights
Dicts == UNION {[K -> Weights] : K \in SUBSET Values}

\* defaultdict(int) / {} before any key is stored
EmptyDict == [k \in {} |-> 0]

\* weighted_sample_space = {'Heads' : 4, 'Tails' : 1}
BiasedCoin == [o \in {"Heads", "Tails"} |-> IF o = "Heads" THEN 4 ELSE 1]

\* sample_space = {'Heads', 'Tails'}
FairCoin == {"Heads", "Tails"}

\* possible_children = ['Boy', 'Girl']
possible_children == <<"Boy", "Girl">>

\* every tuple of four children: what sample_space holds once it is built
Families ==
    [1..NumChildren -> {possible_children[i] : i \in DOMAIN possible_children}]

\* possible_rolls = list(range(1, 6)): the upper end of range one short
die_faces_short == [i \in 1..NumFaces - 1 |-> i]

\* possible_rolls = list(range(1, 7)) in full
die_faces == [i \in 1..NumFaces |-> i]

\* ['Heads', 'Tails'], the list product is given in generate_coin_sample_space
coin_sides == <<"Heads", "Tails">>

\* len([outcome for outcome in coin_flips if outcome == 'Heads'])
heads_count(coin_flips) ==
    Len(SelectSeq(coin_flips, LAMBDA outcome : outcome = "Heads"))

\* itertools.product(symbols, repeat=n) yields its tuples in odometer order.
\* A position tuple t holds, per factor, the index of the symbol taken:
\* the first tuple takes the first symbol everywhere,
product_first(n) == [i \in 1..n |-> 1]

\* the last the last symbol everywhere (the one empty tuple when n = 0),
product_last(t, base) == \A i \in DOMAIN t : t[i] = base

RECURSIVE product_next(_, _)
\* and the next one advances the rightmost factor that is not at its end
product_next(t, base) ==
    IF t = <<>> THEN <<>>
    ELSE IF t[Len(t)] < base THEN [t EXCEPT ![Len(t)] = @ + 1]
    ELSE product_next(SubSeq(t, 1, Len(t) - 1), base) \o <<1>>

\* the tuple of symbols at position tuple t
outcome_at(t, symbols) == [i \in DOMAIN t |-> symbols[t[i]]]

RECURSIVE product_from(_, _)
\* the tuples product(symbols, repeat=n) yields from position t on, as a set
product_from(t, symbols) ==
    {outcome_at(t, symbols)} \cup
        IF product_last(t, Len(symbols)) THEN {}
        ELSE product_from(product_next(t, Len(symbols)), symbols)

\* set(product(symbols, repeat=n))
product_repeat(symbols, n) == product_from(product_first(n), symbols)

\* k * [xs], the list holding xs k times
repeat_list(k, xs) == [i \in 1..k |-> xs]

\* set(product(*lists)): one element of each list, in the order of the lists
product_star(lists) ==
    LET indices == UNION {DOMAIN lists[i] : i \in DOMAIN lists}
        choices == {t \in [DOMAIN lists -> indices] :
                      \A i \in DOMAIN lists : t[i] \in DOMAIN lists[i]}
    IN  {[i \in DOMAIN lists |-> lists[i][t[i]]] : t \in choices}

\* nested for loops whose inner loops are not started afresh
nested_next_no_restart(t, base) ==
    LET running == {i \in DOMAIN t : t[i] < base}
        j == CHOOSE i \in running : \A k \in running : k <= i
    IN  [t EXCEPT ![j] = @ + 1]

\* for child1 in xs: for child2 in xs: ...: the loop variables after the
\* body has run at t. The innermost loop that is not exhausted moves on and
\* the loops inside it start afresh.
nested_next(t, base) ==
    LET running == {i \in DOMAIN t : t[i] < base}
        j == CHOOSE i \in running : \A k \in running : k <= i
    IN  [i \in DOMAIN t |-> IF i < j THEN t[i] ELSE IF i = j THEN t[i] + 1 ELSE 1]

NoValue == [num |-> 0, den |-> 0]

Abs(n) == IF n < 0 THEN 0 - n ELSE n

RECURSIVE Gcd(_, _)
Gcd(a, b) == IF b = 0 THEN a ELSE Gcd(b, a % b)

\* the float nearest to a / b, b # 0, as the fraction in lowest terms
Float(a, b) ==
    LET g == Gcd(Abs(a), Abs(b))
        s == IF b < 0 THEN 0 - 1 ELSE 1
    IN  [num |-> (s * a) \div g, den |-> (s * b) \div g]

\* outcome of a call: a returned float or a raised exception
Return(v) == [raised |-> "none", value |-> v]
Raise(e) == [raised |-> e, value |-> NoValue]

\* a // b where a / b was meant
floor_div(a, b) ==
    IF b = 0 THEN Raise("ZeroDivisionError") ELSE Return(Float(a \div b, 1))

\* a division guarded against a zero denominator
guarded_div(a, b) ==
    IF b = 0 THEN Return(Float(0, 1)) ELSE Return(Float(a, b))

\* Python's a / b on ints
true_div(a, b) ==
    IF b = 0 THEN Raise("ZeroDivisionError") ELSE Return(Float(a, b))

\* float addition x + y. The sums taken here are a/n + (n - a)/n, whose
\* rounded value is exactly 1.0 in double arithmetic (checked by enumeration
\* for every n up to 3000), as the exact sum is, and x + x, which doubling
\* the exponent gives without rounding.
float_add(x, y) == Float(x.num * y.den + y.num * x.den, x.den * y.den)

\* float comparison x <= y
float_le(x, y) == x.num * y.den <= y.num * x.den

(***************************************************************************)
(* Event conditions                                                        *)
(***************************************************************************)
\* lambda outcome: outcome in T (is_heads_or_tails has this shape)
In(T) == [kind |-> "in", set |-> T]
\* lambda x: x == v (is_heads, is_tails, lambda x: x == 21)
Eq(v) == [kind |-> "eq", v |-> v]
\* lambda outcome: not c(outcome) (is_neither, not is_in_interval(...))
Not(c) == [kind |-> "not", arg |-> c]
\* lambda outcome: c(sum(outcome)) (has_sum_of_21 is OfSum(Eq(21)))
OfSum(c) == [kind |-> "of_sum", arg |-> c]
\* lambda x: is_in_interval(x, lo, hi)
Interval(lo, hi) == [kind |-> "interval", lo |-> lo, hi |-> hi]

\* def has_sum_of_21(outcome): return sum(outcome) == 21
has_sum_of_21 == OfSum(Eq(21))

is_heads_or_tails == In({"Heads", "Tails"})
is_neither == Not(is_heads_or_tails)
is_heads == Eq("Heads")
is_tails == Eq("Tails")
\* event_conditions = [is_heads_or_tails, is_heads, is_tails, is_neither]
event_conditions == {is_heads_or_tails, is_heads, is_tails, is_neither}

\* def has_two_boys(outcome): ...; HasBoys(n) is the same test for n boys
HasBoys(n) == [kind |-> "has_boys", n |-> n]
has_two_boys == HasBoys(2)

\* the count compared with >= where == was meant
has_boys_at_least(outcome, n) ==
    Len(SelectSeq(outcome, LAMBDA child : child = "Boy")) >= n

\* len([child for child in outcome if child == 'Boy']) == n
has_boys(outcome, n) ==
    Len(SelectSeq(outcome, LAMBDA child : child = "Boy")) = n

\* minimum <= number <= minimum: the lower end compared twice
is_in_interval_typo(number, minimum, maximum) ==
    minimum <= number /\ number <= minimum

\* minimum < number < maximum: the ends left out
is_in_interval_exclusive(number, minimum, maximum) ==
    minimum < number /\ number < maximum

\* the ends put in order before the comparison
is_in_interval_either_order(number, minimum, maximum) ==
    \/ minimum <= number /\ number <= maximum
    \/ maximum <= number /\ number <= minimum

is_in_interval(number, minimum, maximum) ==
    minimum <= number /\ number <= maximum

RECURSIVE Holds(_, _)
\* event_condition(outcome)
Holds(c, outcome) ==
    CASE c.kind = "in" -> outcome \in c.set
      [] c.kind = "eq" -> outcome = c.v
      [] c.kind = "not" -> ~Holds(c.arg, outcome)
      [] c.kind = "of_sum" -> Holds(c.arg, sum(outcome))
      [] c.kind = "interval" -> is_in_interval(outcome, c.lo, c.hi)
      [] c.kind = "has_boys" -> has_boys(outcome, c.n)

\* the ends an interval condition is built with: one beyond the totals
IntervalEnds == {v - 1 : v \in Values} \cup {v + 1 : v \in Values}

\* conditions on numeric outcomes
ValueConditions ==
    {In(T) : T \in SUBSET Values}
        \cup {Eq(v) : v \in Values}
        \cup {Interval(lo, hi) : lo \in IntervalEnds, hi \in IntervalEnds}
        \cup {Not(Interval(lo, hi)) : lo \in Values, hi \in Values}

\* conditions on the total of a tuple: lambda x: x == v and any truth set
DerivedConditions == {In(T) : T \in SUBSET Values} \cup {Eq(v) : v \in Values}

\* conditions on tuples of rolls
TupleConditions ==
    {In(T) : T \in SUBSET Outcomes}
        \cup {OfSum(c) : c \in DerivedConditions}

\* conditions on a count of heads: lambda x: is_in_interval(x, 8, 10),
\* lambda x: not is_in_interval(x, 3, 7), and their like for other ends
HeadsCountConditions ==
    {Interval(lo, hi) : lo \in 0..DefaultNumFlips, hi \in 0..DefaultNumFlips}
        \cup {Not(Interval(lo, hi)) :
                lo \in 0..DefaultNumFlips, hi \in 0..DefaultNumFlips}

\* conditions on families: has_two_boys, and its like for other counts
FamilyConditions == {HasBoys(n) : n \in 0..NumChildren}

ConditionsOn(type) ==
    CASE type = "tuple" -> TupleConditions
      [] type = "number" -> ValueConditions
      [] type = "coin" -> event_conditions
      [] type = "children" -> FamilyConditions
      [] type = "heads_count" -> HeadsCountConditions

NoCondition == In({})

(***************************************************************************)
(* Python objects passed as generic_sample_space                           *)
(***************************************************************************)
RECURSIVE SeqOf(_)
\* one enumeration of a set
SeqOf(S) ==
    IF S = {} THEN <<>>
    ELSE LET x == CHOOSE y \in S : TRUE IN <<x>> \o SeqOf(S \ {x})

Reverse(s) == [i \in 1..Len(s) |-> s[Len(s) + 1 - i]]

ToSet(s) == {s[i] : i \in DOMAIN s}

\* The order a set or dict is iterated in is fixed per object and not
\* specified: a call sees one enumeration or its reverse.
IterationOrders(S) == {SeqOf(S), Reverse(SeqOf(S))}

\* a set object, its elements in iteration order
PySet(order) == [type |-> "set", items |-> order, weights |-> EmptyDict]
\* a dict object, its keys in iteration order
PyDict(order, W) == [type |-> "dict", items |-> order, weights |-> W]

\* a list, a tuple or a frozenset of outcomes of the given type, its elements
\* in iteration order; `kind` is the name of type(generic_sample_space)
PyOther(kind, order, type) ==
    [type |-> kind, items |-> order, weights |-> EmptyDict, of |-> type]

\* for outcome in sample_space, for a dict that skips keys of weight zero
iterate_positive(generic_sample_space) ==
    IF generic_sample_space.type = "set" THEN generic_sample_space.items
    ELSE SelectSeq(generic_sample_space.items,
                   LAMBDA k : generic_sample_space.weights[k] # 0)

\* for outcome in sample_space: the elements of a set, the keys of a dict
iterate(generic_sample_space) == generic_sample_space.items

\* len(generic_sample_space)
len(generic_sample_space) == Len(generic_sample_space.items)

RECURSIVE sum_values_from_one(_, _)
\* sum(..., 1): the sum started at 1
sum_values_from_one(keys, W) ==
    IF keys = <<>> THEN 1
    ELSE W[Head(keys)] + sum_values_from_one(Tail(keys), W)

RECURSIVE sum_values(_, _)
\* sum(generic_sample_space[outcome] for outcome in keys), keys a list
sum_values(keys, W) ==
    IF keys = <<>> THEN 0 ELSE W[Head(keys)] + sum_values(Tail(keys), W)

\* generic_sample_space.pop(key) where generic_sample_space[key] was meant
getitem_pop(W, class, key) ==
    IF key \in DOMAIN W
    THEN [raised |-> "none", weight |-> W[key],
          weights |-> [k \in DOMAIN W \ {key} |-> W[k]]]
    ELSE [raised |-> "KeyError", weight |-> 0, weights |-> W]

\* generic_sample_space[key] on a mapping of the given class: the weight
\* read and the mapping afterwards. A defaultdict(int) stores a missing key
\* with int() = 0 and returns that; a dict raises KeyError.
getitem(W, class, key) ==
    IF key \in DOMAIN W
    THEN [raised |-> "none", weight |-> W[key], weights |-> W]
    ELSE IF class = "defaultdict"
    THEN [raised |-> "none", weight |-> 0,
          weights |-> [k \in DOMAIN W \cup {key} |-> IF k = key THEN 0 ELSE W[k]]]
    ELSE [raised |-> "KeyError", weight |-> 0, weights |-> W]

RECURSIVE stored_after(_, _, _)
\* the mapping after generic_sample_space[outcome] was read for each of keys
stored_after(keys, W, class) ==
    IF keys = <<>> THEN W
    ELSE stored_after(Tail(keys), getitem(W, class, Head(keys)).weights, class)

(***************************************************************************)
(* get_matching_event and compute_event_probability                        *)
(***************************************************************************)
RECURSIVE matching_list_negated(_, _)
\* the comprehension with its test inverted
matching_list_negated(c, outcomes) ==
    IF outcomes = <<>> THEN <<>>
    ELSE LET rest == matching_list_negated(c, Tail(outcomes))
         IN  IF ~Holds(c, Head(outcomes)) THEN <<Head(outcomes)>> \o rest ELSE rest

RECURSIVE matching_list_until_miss(_, _)
\* the comprehension giving up at the first outcome that fails the test
matching_list_until_miss(c, outcomes) ==
    IF outcomes = <<>> THEN <<>>
    ELSE IF Holds(c, Head(outcomes))
    THEN <<Head(outcomes)>> \o matching_list_until_miss(c, Tail(outcomes))
    ELSE <<>>

RECURSIVE matching_list(_, _)
\* [outcome for outcome in sample_space if event_condition(outcome)]
matching_list(c, outcomes) ==
    IF outcomes = <<>> THEN <<>>
    ELSE LET rest == matching_list(c, Tail(outcomes))
         IN  IF Holds(c, Head(outcomes)) THEN <<Head(outcomes)>> \o rest ELSE rest

get_matching_event(c, generic_sample_space) ==
    ToSet(matching_list(c, iterate(generic_sample_space)))

\* the values event_condition is applied to by get_matching_event
condition_calls(generic_sample_space) == ToSet(iterate(generic_sample_space))

\* compute_probability weighing the keys of a mapping
compute_probability_weighted(c, generic_sample_space) ==
    LET ev == get_matching_event(c, generic_sample_space)
    IN  IF generic_sample_space.type = "set"
        THEN true_div(Cardinality(ev), len(generic_sample_space))
        ELSE true_div(sum_values(SeqOf(ev), generic_sample_space.weights),
                      sum_values(generic_sample_space.items,
                                 generic_sample_space.weights))

\* compute_probability: event size over space size, whatever the space
compute_probability(c, generic_sample_space) ==
    LET ev == get_matching_event(c, generic_sample_space)
    IN  true_div(Cardinality(ev), len(generic_sample_space))

\* the type test left out: every space takes the counting branch
compute_event_probability_unweighted(c, generic_sample_space) ==
    LET ev == get_matching_event(c, generic_sample_space)
    IN  true_div(Cardinality(ev), len(generic_sample_space))

\* the weighted branch dividing by the number of keys
compute_event_probability_by_len(c, generic_sample_space) ==
    LET ev == get_matching_event(c, generic_sample_space)
    IN  IF generic_sample_space.type = "set"
        THEN true_div(Cardinality(ev), len(generic_sample_space))
        ELSE true_div(sum_values(SeqOf(ev), generic_sample_space.weights),
                      len(generic_sample_space))

\* the type test asking only whether the space is a dict
compute_event_probability_unless_dict(c, generic_sample_space) ==
    LET ev == get_matching_event(c, generic_sample_space)
    IN  IF generic_sample_space.type # "dict"
        THEN true_div(Cardinality(ev), len(generic_sample_space))
        ELSE true_div(sum_values(SeqOf(ev), generic_sample_space.weights),
                      sum_values(generic_sample_space.items,
                                 generic_sample_space.weights))

\* generic_sample_space[outcome] on a space that is no mapping: a frozenset
\* has no subscript; a list or tuple takes an int as a position, counted
\* from 0, or from the end when negative, and nothing else
subscript(generic_sample_space, outcome) ==
    LET items == generic_sample_space.items IN
    IF generic_sample_space.type = "frozenset" THEN Raise("TypeError")
    ELSE IF generic_sample_space.of # "number" THEN Raise("TypeError")
    ELSE IF 0 <= outcome /\ outcome < Len(items)
    THEN [raised |-> "none", value |-> items[outcome + 1]]
    ELSE IF outcome < 0 /\ 0 - Len(items) <= outcome
    THEN [raised |-> "none", value |-> items[Len(items) + outcome + 1]]
    ELSE Raise("IndexError")

RECURSIVE sum_subscripts(_, _)
\* sum(generic_sample_space[outcome] for outcome in keys) on such a space:
\* the sum, or the first exception a subscript raises
sum_subscripts(keys, generic_sample_space) ==
    IF keys = <<>> THEN [raised |-> "none", value |-> 0]
    ELSE LET got == subscript(generic_sample_space, Head(keys)) IN
         IF got.raised # "none" THEN got
         ELSE LET rest == sum_subscripts(Tail(keys), generic_sample_space) IN
              IF rest.raised # "none" THEN rest
              ELSE [raised |-> "none", value |-> got.value + rest.value]

compute_event_probability(c, generic_sample_space) ==
    LET ev == get_matching_event(c, generic_sample_space)
    IN  IF generic_sample_space.type = "set"
        THEN true_div(Cardinality(ev), len(generic_sample_space))
        ELSE IF generic_sample_space.type = "dict"
        THEN LET event_size == sum_values(SeqOf(ev), generic_sample_space.weights)
             IN  true_div(event_size,
                          sum_values(generic_sample_space.items,
                                     generic_sample_space.weights))
        \* neither: the subscripts are tried, then .values() is missing
        ELSE LET event_size == sum_subscripts(SeqOf(ev), generic_sample_space)
             IN  IF event_size.raised # "none" THEN Raise(event_size.raised)
                 ELSE Raise("AttributeError")

\* the mapping a call of compute_event_probability leaves behind: the
\* weighted branch reads generic_sample_space[outcome] for outcome in event
weights_after_call(c, generic_sample_space, class) ==
    IF generic_sample_space.type = "set" THEN generic_sample_space.weights
    ELSE stored_after(SeqOf(get_matching_event(c, generic_sample_space)),
                      generic_sample_space.weights, class)

(***************************************************************************)
(* The notebook as a state machine                                         *)
(***************************************************************************)
NoLookup == [key |-> 0, weight |-> 0]

NoCall ==
    /\ pending = {}
    /\ pc = "start"
    /\ event_condition = NoCondition
    /\ passed = "none"
    /\ condition_args = {}
    /\ event = {}
    /\ prob = NoValue
    /\ raised = "none"
    /\ lookup = NoLookup

\* no pass over a product runs
NoPass == cursor = <<>> /\ matched = 0 /\ visited = 0

\* frequencies = []
NoFrequencies == [len |-> 0, newest |-> NoValue]

\* the simulation has not run: coin_flips = [], frequencies = []
NoSimulation == flips = EmptyBag /\ frequencies = NoFrequencies

\* a set of die-roll tuples; weighted_sample_space is not built yet
InitRolls ==
    /\ sample_space \in SUBSET Outcomes
    /\ outcome_type = "tuple"
    /\ weighted_sample_space = EmptyDict
    /\ mapping_type = "dict"
    /\ defined = {"set"}

\* a set of numbers; weighted_sample_space is not built
InitNumbers ==
    /\ sample_space \in SUBSET Values
    /\ outcome_type = "number"
    /\ weighted_sample_space = EmptyDict
    /\ mapping_type = "dict"
    /\ defined = {"set"}

\* a literal weighted mapping over numbers; sample_space is not built
InitWeighted ==
    /\ sample_space = {}
    /\ outcome_type = "number"
    /\ weighted_sample_space \in Dicts
    /\ mapping_type = "dict"
    /\ defined = {"dict"}

\* the fair and the biased coin of the notebook
InitCoin ==
    /\ sample_space = FairCoin
    /\ outcome_type = "coin"
    /\ weighted_sample_space = BiasedCoin
    /\ mapping_type = "dict"
    /\ defined = {"set", "dict"}

\* the families of four children
InitChildren ==
    /\ sample_space = Families
    /\ outcome_type = "children"
    /\ weighted_sample_space = EmptyDict
    /\ mapping_type = "dict"
    /\ defined = {"set"}

\* sample_space = set(), before the nested loops over possible_children
InitNestedLoops ==
    /\ sample_space = {}
    /\ outcome_type = "children"
    /\ weighted_sample_space = EmptyDict
    /\ mapping_type = "dict"
    /\ defined = {"set"}
    /\ pending = {}
    /\ pc = "children_loops"
    /\ event_condition = NoCondition
    /\ passed = "none"
    /\ condition_args = {}
    /\ event = {}
    /\ prob = NoValue
    /\ raised = "none"
    /\ lookup = NoLookup
    /\ cursor = product_first(NumChildren)
    /\ matched = 0
    /\ visited = 0
    /\ NoSimulation

Init ==
    \/ /\ InitRolls \/ InitNumbers \/ InitWeighted \/ InitCoin \/ InitChildren
       /\ NoCall
       /\ NoPass /\ NoSimulation
    \/ InitNestedLoops

\* the object a call receives for the notebook variable `which`
Objects(which) ==
    IF which = "set"
    THEN {PySet(order) : order \in IterationOrders(sample_space)}
    ELSE {PyDict(order, weighted_sample_space) :
            order \in IterationOrders(DOMAIN weighted_sample_space)}

\* the conditions that are total on the outcomes of the space `which`
ConditionsFor(which) ==
    IF which = "set" \/ outcome_type \in {"coin", "heads_count"}
    THEN ConditionsOn(outcome_type) ELSE ValueConditions

\* A run builds its sample spaces and then makes one call: a call changes
\* neither space and overwrites all it left, so a second call from the state
\* after a call reaches nothing the first could not.
Ready == pc \in {"start", "histogram_done"}

\* event = get_matching_event(event_condition, space)
GetMatchingEvent ==
    /\ Ready
    /\ \E which \in defined :
         \E c \in ConditionsFor(which), space \in Objects(which) :
            /\ event_condition' = c
            /\ passed' = which
            /\ condition_args' = condition_calls(space)
            /\ event' = get_matching_event(c, space)
            /\ prob' = NoValue
            /\ raised' = "none"
    /\ pc' = "get_matching_event"
    /\ UNCHANGED <<spaces, pending, lookup, pass, simulation>>

\* prob = compute_event_probability(event_condition, space), wherever the
\* notebook makes the call
Query ==
    /\ \E which \in defined :
         \E c \in ConditionsFor(which), space \in Objects(which) :
            LET result == compute_event_probability(c, space) IN
            /\ event_condition' = c
            /\ passed' = which
            /\ condition_args' = condition_calls(space)
            /\ event' = get_matching_event(c, space)
            /\ prob' = result.value
            /\ raised' = result.raised
            /\ weighted_sample_space' =
                  IF which = "dict" THEN weights_after_call(c, space, mapping_type)
                  ELSE weighted_sample_space
    /\ pc' = "compute_event_probability"
    /\ UNCHANGED <<sample_space, outcome_type, mapping_type, defined, pending,
                   lookup, pass, simulation>>

\* the call as the one call of a run
ComputeEventProbability == Ready /\ Query

\* weighted_sample_space = defaultdict(int), then the for loop is entered
HistogramStart ==
    /\ pc = "start"
    /\ outcome_type = "tuple"
    /\ weighted_sample_space' = EmptyDict
    /\ mapping_type' = "defaultdict"
    /\ defined' = defined \cup {"dict"}
    /\ pending' = sample_space
    /\ pc' = IF sample_space = {} THEN "histogram_done" ELSE "histogram_loop"
    /\ UNCHANGED <<sample_space, outcome_type, call, raised, lookup, pass, simulation>>

\* if total in weighted_sample_space: weighted_sample_space[total] += 1,
\* a count kept only for keys that are already there
increment_existing(W, total) ==
    IF total \in DOMAIN W THEN [W EXCEPT ![total] = @ + 1] ELSE W

\* weighted_sample_space[total] = 1 where += 1 was meant
increment_assign(W, total) ==
    [k \in DOMAIN W \cup {total} |-> IF k = total THEN 1 ELSE W[k]]

\* weighted_sample_space[total] += 1 on a defaultdict(int): a missing key
\* is first stored with int() = 0
increment(W, total) ==
    IF total \in DOMAIN W
    THEN [W EXCEPT ![total] = @ + 1]
    ELSE [k \in DOMAIN W \cup {total} |-> IF k = total THEN 0 + 1 ELSE W[k]]

\* one pass of: for outcome in sample_space:
\*                 total = sum(outcome); weighted_sample_space[total] += 1
HistogramStep ==
    /\ pc = "histogram_loop"
    /\ \E outcome \in pending :
         LET total == sum(outcome) IN
         /\ weighted_sample_space' = increment(weighted_sample_space, total)
         /\ pending' = pending \ {outcome}
         /\ pc' = IF pending = {outcome} THEN "histogram_done" ELSE "histogram_loop"
    /\ UNCHANGED <<sample_space, outcome_type, mapping_type, defined, call,
                   raised, lookup, pass, simulation>>

\* prob = compute_event_probability(lambda x: c(x), weighted_sample_space)
\* assert prob == compute_event_probability(lambda o: c(sum(o)), sample_space)
CompareWeightedUnweighted ==
    /\ Ready
    /\ defined = {"set", "dict"}
    /\ outcome_type = "tuple"
    /\ \E c \in DerivedConditions,
          weighted \in Objects("dict"), unweighted \in Objects("set") :
         LET first == compute_event_probability(c, weighted)
             second == compute_event_probability(OfSum(c), unweighted)
         IN  /\ event_condition' = c
             /\ passed' = "dict"
             /\ condition_args' = condition_calls(weighted)
             /\ event' = get_matching_event(c, weighted)
             /\ prob' = first.value
             /\ raised' = IF first.raised # "none" THEN first.raised
                           ELSE IF second.raised # "none" THEN second.raised
                           ELSE IF first.value = second.value THEN "none"
                           ELSE "AssertionError"
             /\ weighted_sample_space' =
                   weights_after_call(c, weighted, mapping_type)
    /\ pc' = "compare"
    /\ UNCHANGED <<sample_space, outcome_type, mapping_type, defined, pending,
                   lookup, pass, simulation>>

\* the keys the notebook looks a weight up by: any total, and one beyond
LookupKeys ==
    CASE outcome_type = "coin" -> FairCoin \cup {"Edge"}
      [] outcome_type = "heads_count" -> 0..DefaultNumFlips + 1
      [] OTHER -> Values \cup IntervalEnds

\* weighted_sample_space[key], as in assert weighted_sample_space[6] == 1.
\* Calls after a lookup are left out: what they do to a mapping that holds
\* a weight 0 is seen on the literal mappings.
Lookup ==
    /\ Ready
    /\ "dict" \in defined
    /\ \E key \in LookupKeys :
         LET got == getitem(weighted_sample_space, mapping_type, key) IN
         /\ weighted_sample_space' = got.weights
         /\ lookup' = [key |-> key, weight |-> got.weight]
         /\ raised' = got.raised
    /\ pc' = "lookup"
    /\ UNCHANGED <<sample_space, outcome_type, mapping_type, defined, pending,
                   call, pass, simulation>>

\* the body of the four nested loops, run once:
\* outcome = (child1, child2, child3, child4); sample_space.add(outcome)
NestedLoopsStep ==
    /\ pc = "children_loops"
    /\ LET outcome == outcome_at(cursor, possible_children) IN
         sample_space' = sample_space \cup {outcome}
    /\ IF product_last(cursor, Len(possible_children))
       THEN pc' = "children_built" /\ cursor' = cursor
       ELSE pc' = pc /\ cursor' = nested_next(cursor, Len(possible_children))
    /\ UNCHANGED <<outcome_type, weighted_sample_space, mapping_type, defined,
                   pending, call, raised, lookup, matched, visited, simulation>>

\* all_combinations = product(*(4 * [possible_children]))
\* assert set(all_combinations) == sample_space
ProductStarAssert ==
    /\ pc = "children_built"
    /\ LET all_combinations ==
               product_star(repeat_list(NumChildren, possible_children))
       IN  raised' = IF all_combinations = sample_space
                     THEN "none" ELSE "AssertionError"
    /\ pc' = "children_star_asserted"
    /\ UNCHANGED <<spaces, pending, call, lookup, pass, simulation>>

\* sample_space_efficient = set(product(possible_children, repeat=4))
\* assert sample_space == sample_space_efficient
ProductRepeatAssert ==
    /\ pc = "children_star_asserted"
    /\ raised = "none"
    /\ LET sample_space_efficient == product_repeat(possible_children, NumChildren)
       IN  raised' = IF sample_space = sample_space_efficient
                     THEN "none" ELSE "AssertionError"
    /\ pc' = "children_asserted"
    /\ UNCHANGED <<spaces, pending, call, lookup, pass, simulation>>

Next ==
    \/ GetMatchingEvent
    \/ ComputeEventProbability
    \/ HistogramStart
    \/ HistogramStep
    \/ CompareWeightedUnweighted
    \/ Lookup
    \/ NestedLoopsStep
    \/ ProductStarAssert
    \/ ProductRepeatAssert

Spec == Init /\ [][Next]_vars

(***************************************************************************)
(* Six rolls of a die.  sample_space = set(product(possible_rolls,         *)
(* repeat=6)) has 6^6 elements, and compute_event_probability(             *)
(* has_sum_of_21, sample_space) passes over all of them.  The set and the  *)
(* event are too large to be held in a state: the pass is followed outcome *)
(* by outcome, in the order product yields them, and the state holds how   *)
(* many outcomes it has visited, len(sample_space) at the end, and how     *)
(* many of them matched, len(event) at the end (product yields no tuple    *)
(* twice, so neither set() loses any).                                     *)
(***************************************************************************)
InitSixDice ==
    /\ sample_space = {}
    /\ outcome_type = "six_rolls"
    /\ weighted_sample_space = EmptyDict
    /\ mapping_type = "dict"
    /\ defined = {"set"}
    /\ pending = {}
    /\ pc = "six_dice_pass"
    /\ event_condition = has_sum_of_21
    /\ passed = "set"
    /\ condition_args = {}
    /\ event = {}
    /\ prob = NoValue
    /\ raised = "none"
    /\ lookup = NoLookup
    /\ cursor = product_first(NumDice)
    /\ matched = 0
    /\ visited = 0
    /\ NoSimulation

\* one outcome of [outcome for outcome in sample_space
\*                 if event_condition(outcome)]
SixDiceTest ==
    /\ pc = "six_dice_pass"
    /\ LET outcome == outcome_at(cursor, die_faces) IN
         matched' = IF Holds(event_condition, outcome) THEN matched + 1 ELSE matched
    /\ visited' = visited + 1
    /\ IF product_last(cursor, Len(die_faces))
       THEN pc' = "six_dice_counted" /\ cursor' = cursor
       ELSE pc' = pc /\ cursor' = product_next(cursor, Len(die_faces))
    /\ UNCHANGED <<spaces, pending, call, raised, lookup, simulation>>

\* return len(event)/len(generic_sample_space)
SixDiceReturn ==
    /\ pc = "six_dice_counted"
    /\ LET result == true_div(matched, visited) IN
         /\ prob' = result.value
         /\ raised' = result.raised
    /\ pc' = "six_dice_done"
    /\ UNCHANGED <<spaces, pending, event_condition, passed, condition_args,
                   event, lookup, pass, simulation>>

NextSixDice == SixDiceTest \/ SixDiceReturn

SpecSixDice == InitSixDice /\ [][NextSixDice]_vars

(***************************************************************************)
(* Coin flips.  weighted_sample_space = generate_coin_sample_space(n)      *)
(* passes over product(['Heads', 'Tails'], repeat=n), one tuple a step,    *)
(* and the notebook then queries the mapping it returned.                  *)
(***************************************************************************)
\* the call is entered: weighted_sample_space = defaultdict(int)
InitCoinFlips ==
    /\ sample_space = {}
    /\ outcome_type = "heads_count"
    /\ weighted_sample_space = EmptyDict
    /\ mapping_type = "defaultdict"
    /\ defined = {"dict"}
    /\ pending = {}
    /\ pc = "generate_coin_sample_space"
    /\ event_condition = NoCondition
    /\ passed = "none"
    /\ condition_args = {}
    /\ event = {}
    /\ prob = NoValue
    /\ raised = "none"
    /\ lookup = NoLookup
    /\ \E num_flips \in 0..DefaultNumFlips : cursor = product_first(num_flips)
    /\ matched = 0
    /\ visited = 0
    /\ NoSimulation

\* one pass of: for coin_flips in product(['Heads', 'Tails'], repeat=num_flips):
\*                 heads_count = len([...]); weighted_sample_space[heads_count] += 1
\* and the return after the last
GenerateCoinSampleSpaceStep ==
    /\ pc = "generate_coin_sample_space"
    /\ LET coin_flips == outcome_at(cursor, coin_sides) IN
         weighted_sample_space' =
             increment(weighted_sample_space, heads_count(coin_flips))
    /\ IF product_last(cursor, Len(coin_sides))
       THEN pc' = "histogram_done" /\ cursor' = cursor
       ELSE pc' = pc /\ cursor' = product_next(cursor, Len(coin_sides))
    /\ UNCHANGED <<sample_space, outcome_type, mapping_type, defined, pending,
                   call, raised, lookup, matched, visited, simulation>>

NextCoinFlips ==
    \/ GenerateCoinSampleSpaceStep
    \/ GetMatchingEvent
    \/ ComputeEventProbability
    \/ Lookup

SpecCoinFlips == InitCoinFlips /\ [][NextCoinFlips]_vars

\* a for loop that has been entered goes on passing until product is exhausted
SpecCoinFlipsFair == SpecCoinFlips /\ WF_vars(GenerateCoinSampleSpaceStep)

(***************************************************************************)
(* The first evaluator.  compute_probability is defined before the         *)
(* weighted spaces are; here it is called on sets and on mappings alike.   *)
(***************************************************************************)
InitFirstEvaluator == (InitNumbers \/ InitWeighted \/ InitCoin) /\ NoCall /\ NoPass /\ NoSimulation

\* prob = compute_probability(event_condition, space)
ComputeProbability ==
    /\ pc = "start"
    /\ \E which \in defined :
         \E c \in ConditionsFor(which), space \in Objects(which) :
            LET result == compute_probability(c, space) IN
            /\ event_condition' = c
            /\ passed' = which
            /\ condition_args' = condition_calls(space)
            /\ event' = get_matching_event(c, space)
            /\ prob' = result.value
            /\ raised' = result.raised
    /\ pc' = "compute_probability"
    /\ UNCHANGED <<spaces, pending, lookup, pass, simulation>>

NextFirstEvaluator == ComputeProbability

SpecFirstEvaluator == InitFirstEvaluator /\ [][NextFirstEvaluator]_vars

(***************************************************************************)
(* Spaces that are neither a set nor a mapping.  The outcomes are given as *)
(* a list, with repetitions or without, and compute_event_probability is   *)
(* called on the list, on tuple(...), frozenset(...) and set(...) of it.   *)
(* `sample_space` holds the list.                                          *)
(***************************************************************************)
\* ints that are and that are not positions of a list of up to MaxLen elements
ListOutcomes == (0 - 1)..MaxLen

ListsOf(S) == UNION {[1..n -> S] : n \in 0..MaxLen}

EqConditions == {Eq(v) : v \in ListOutcomes} \cup {Not(Eq(v)) : v \in ListOutcomes}

InitOtherSpaces ==
    /\ \/ sample_space \in ListsOf(ListOutcomes) /\ outcome_type = "number"
       \/ sample_space \in ListsOf(FairCoin) /\ outcome_type = "coin"
    /\ weighted_sample_space = EmptyDict
    /\ mapping_type = "dict"
    /\ defined = {"list"}
    /\ NoCall
    /\ NoPass /\ NoSimulation

\* the objects type(...)(sample_space) of the given type
ObjectsOfType(kind) ==
    IF kind = "set"
    THEN {PySet(order) : order \in IterationOrders(ToSet(sample_space))}
    ELSE IF kind = "frozenset"
    THEN {PyOther(kind, order, outcome_type) :
            order \in IterationOrders(ToSet(sample_space))}
    ELSE {PyOther(kind, sample_space, outcome_type)}

\* prob = compute_event_probability(event_condition, space)
QueryOtherSpace ==
    /\ pc = "start"
    /\ \E kind \in {"set", "list", "tuple", "frozenset"} :
         \E c \in IF outcome_type = "coin" THEN event_conditions ELSE EqConditions,
            space \in ObjectsOfType(kind) :
            LET result == compute_event_probability(c, space) IN
            /\ event_condition' = c
            /\ passed' = kind
            /\ condition_args' = condition_calls(space)
            /\ event' = get_matching_event(c, space)
            /\ prob' = result.value
            /\ raised' = result.raised
    /\ pc' = "compute_event_probability"
    /\ UNCHANGED <<spaces, pending, lookup, pass, simulation>>

NextOtherSpaces == QueryOtherSpace

SpecOtherSpaces == InitOtherSpaces /\ [][NextOtherSpaces]_vars

(***************************************************************************)
(* The running-frequency simulation.  Each pass of the loop appends a      *)
(* flip, any value np.random.randint(0, 2) can return, to coin_flips and   *)
(* the frequency of heads so far to frequencies.  frequency_heads counts   *)
(* the elements equal to 1 and takes the length; the order of the flips    *)
(* has no part in either, and `flips` holds the list up to it.             *)
(***************************************************************************)
\* np.random.randint(0, 2): 0 (tails) or 1 (heads)
coin_flip_values == 0..1

\* coin_flips.append(flip) left out
list_append_dropped(xs, x) == xs

\* coin_flips.append(flip)
list_append(xs, x) == xs (+) SetToBag({x})

\* def frequency_heads(coin_flip_sequence):
\*     total_heads = len([head for head in coin_flip_sequence if head == 1])
\*     return total_heads / len(coin_flip_sequence)
frequency_heads(coin_flip_sequence) ==
    LET total_heads == CopiesIn(1, coin_flip_sequence)
    IN  true_div(total_heads, BagCardinality(coin_flip_sequence))

\* coin_flips = []; frequencies = []; the loop is about to start
InitSimulation ==
    /\ sample_space = {}
    /\ outcome_type = "flip"
    /\ weighted_sample_space = EmptyDict
    /\ mapping_type = "dict"
    /\ defined = {}
    /\ NoCall
    /\ NoPass /\ NoSimulation

\* one pass of: for _ in range(2000):
\*                 coin_flips.append(np.random.randint(0,2))
\*                 frequencies.append(frequency_heads(coin_flips))
\* `visited` counts the passes; an exception ends the cell
SimulationStep ==
    /\ pc \in {"start", "simulation_loop"}
    /\ visited < NumIterations
    /\ \E flip \in coin_flip_values :
         LET appended == list_append(flips, flip)
             freq == frequency_heads(appended)
         IN  /\ flips' = appended
             /\ raised' = freq.raised
             /\ IF freq.raised = "none"
                THEN /\ frequencies' = [len |-> frequencies.len + 1,
                                        newest |-> freq.value]
                     /\ pc' = IF visited + 1 = NumIterations
                              THEN "simulation_done" ELSE "simulation_loop"
                ELSE /\ frequencies' = frequencies
                     /\ pc' = "simulation_raised"
    /\ visited' = visited + 1
    /\ UNCHANGED <<spaces, pending, call, lookup, cursor, matched>>

NextSimulation == SimulationStep

SpecSimulation == InitSimulation /\ [][NextSimulation]_vars

(***************************************************************************)
(* Ten flips and twenty.  The notebook asks for the probability of a head  *)
(* count outside [3, 7] on generate_coin_sample_space() and outside        *)
(* [5, 15] on generate_coin_sample_space(num_flips=20).  The loop of the   *)
(* latter makes 2^20 passes; a step takes up to BlockSize of them.         *)
(***************************************************************************)
InitTenOrTwentyFlips ==
    /\ sample_space = {}
    /\ outcome_type = "heads_count"
    /\ weighted_sample_space = EmptyDict
    /\ mapping_type = "defaultdict"
    /\ defined = {"dict"}
    /\ pending = {}
    /\ pc = "generate_coin_sample_space"
    /\ event_condition = NoCondition
    /\ passed = "none"
    /\ condition_args = {}
    /\ event = {}
    /\ prob = NoValue
    /\ raised = "none"
    /\ lookup = NoLookup
    /\ \E num_flips \in {DefaultNumFlips, MoreFlips} :
         cursor = product_first(num_flips)
    /\ matched = 0
    /\ visited = 0
    /\ NoSimulation

\* one pass of
\*   for coin_flips in product(['Heads', 'Tails'], repeat=num_flips):
\*       heads_count = len([...]); weighted_sample_space[heads_count] += 1
\* at position `cursor` of product: the mapping it leaves, the position of
\* the next pass, and whether product is exhausted
coin_pass(loop) ==
    [weights |-> increment(loop.weights,
                           heads_count(outcome_at(loop.cursor, coin_sides))),
     cursor |-> IF product_last(loop.cursor, Len(coin_sides)) THEN loop.cursor
                ELSE product_next(loop.cursor, Len(coin_sides)),
     exhausted |-> product_last(loop.cursor, Len(coin_sides))]

RECURSIVE coin_passes(_, _)
\* up to n passes, one after the other: the first half of them, then the rest
coin_passes(n, loop) ==
    IF loop.exhausted \/ n = 0 THEN loop
    ELSE IF n = 1 THEN coin_pass(loop)
    ELSE coin_passes(n - n \div 2, coin_passes(n \div 2, loop))

\* the next BlockSize passes of the loop, and the return after the last
GenerateCoinSampleSpaceBlock ==
    /\ pc = "generate_coin_sample_space"
    /\ LET after == coin_passes(BlockSize,
                                [weights |-> weighted_sample_space,
                                 cursor |-> cursor, exhausted |-> FALSE]) IN
         /\ weighted_sample_space' = after.weights
         /\ cursor' = after.cursor
         /\ pc' = IF after.exhausted THEN "histogram_done" ELSE pc
    /\ UNCHANGED <<sample_space, outcome_type, mapping_type, defined, pending,
                   call, raised, lookup, matched, visited, simulation>>

\* lambda x: not is_in_interval(x, 3, 7) on ten flips,
\* lambda x: not is_in_interval(x, 5, 15) on twenty
outside_interval(num_flips) ==
    IF num_flips = MoreFlips THEN Not(Interval(5, 15)) ELSE Not(Interval(3, 7))

\* prob = compute_event_probability(lambda x: not is_in_interval(...),
\*                                  weighted_sample_space)
OutsideIntervalQuery ==
    /\ pc = "histogram_done"
    /\ \E space \in Objects("dict") :
         LET c == outside_interval(Len(cursor))
             result == compute_event_probability(c, space)
         IN  /\ event_condition' = c
             /\ passed' = "dict"
             /\ condition_args' = condition_calls(space)
             /\ event' = get_matching_event(c, space)
             /\ prob' = result.value
             /\ raised' = result.raised
             /\ weighted_sample_space' = weights_after_call(c, space, mapping_type)
    /\ pc' = "compute_event_probability"
    /\ UNCHANGED <<sample_space, outcome_type, mapping_type, defined, pending,
                   lookup, pass, simulation>>

NextTenOrTwentyFlips ==
    \/ GenerateCoinSampleSpaceBlock
    \/ OutsideIntervalQuery

SpecTenOrTwentyFlips == InitTenOrTwentyFlips /\ [][NextTenOrTwentyFlips]_vars

(***************************************************************************)
(* The histogram cells.  weighted_sample_space is built from sample_space  *)
(* by the loop of HistogramStart / HistogramStep, for every set of tuples  *)
(* of the bounded model and, followed tuple by tuple as above, for the six *)
(* rolls of the notebook, where the cells that follow the loop assert the  *)
(* weights of 6 and 36 and compare the weight of 21 with the event of the  *)
(* tuples of sum 21.                                                       *)
(***************************************************************************)
\* sample_space = set(product(possible_rolls, repeat=6)) is built and
\* weighted_sample_space = defaultdict(int) has just been made
InitSixDiceHistogram ==
    /\ sample_space = {}
    /\ outcome_type = "six_rolls"
    /\ weighted_sample_space = EmptyDict
    /\ mapping_type = "defaultdict"
    /\ defined = {"set", "dict"}
    /\ pending = {}
    /\ pc = "six_dice_histogram"
    /\ event_condition = NoCondition
    /\ passed = "none"
    /\ condition_args = {}
    /\ event = {}
    /\ prob = NoValue
    /\ raised = "none"
    /\ lookup = NoLookup
    /\ cursor = product_first(NumDice)
    /\ matched = 0
    /\ visited = 0
    /\ NoSimulation

InitHistogram ==
    \/ InitRolls /\ NoCall /\ NoPass /\ NoSimulation
    \/ InitSixDiceHistogram

\* one pass of: for outcome in sample_space:
\*                 total = sum(outcome); weighted_sample_space[total] += 1
SixDiceHistogramStep ==
    /\ pc = "six_dice_histogram"
    /\ LET outcome == outcome_at(cursor, die_faces)
           total == sum(outcome)
       IN  weighted_sample_space' = increment(weighted_sample_space, total)
    /\ visited' = visited + 1
    /\ IF product_last(cursor, Len(die_faces))
       THEN pc' = "six_dice_histogram_done" /\ cursor' = cursor
       ELSE pc' = pc /\ cursor' = product_next(cursor, Len(die_faces))
    /\ UNCHANGED <<sample_space, outcome_type, mapping_type, defined, pending,
                   call, raised, lookup, matched, simulation>>

\* assert weighted_sample_space[6] == 1
\* assert weighted_sample_space[36] == 1
SixDiceWeightAsserts ==
    /\ pc = "six_dice_histogram_done"
    /\ LET lowest == getitem(weighted_sample_space, mapping_type, 6)
           highest == getitem(lowest.weights, mapping_type, 36)
       IN  /\ weighted_sample_space' = highest.weights
           /\ lookup' = IF lowest.weight = 1
                        THEN [key |-> 36, weight |-> highest.weight]
                        ELSE [key |-> 6, weight |-> lowest.weight]
           /\ raised' = IF lowest.weight = 1 /\ highest.weight = 1
                        THEN "none" ELSE "AssertionError"
    /\ pc' = "six_dice_weights_asserted"
    /\ UNCHANGED <<sample_space, outcome_type, mapping_type, defined, pending,
                   call, pass, simulation>>

\* event = get_matching_event(lambda x: sum(x) == 21, sample_space) is
\* entered: its pass over sample_space is SixDiceTest
SixDiceGetMatchingEvent ==
    /\ pc = "six_dice_weights_asserted"
    /\ raised = "none"
    /\ event_condition' = has_sum_of_21
    /\ passed' = "set"
    /\ cursor' = product_first(NumDice)
    /\ matched' = 0
    /\ visited' = 0
    /\ pc' = "six_dice_pass"
    /\ UNCHANGED <<spaces, pending, condition_args, event, prob, raised, lookup, simulation>>

\* assert weighted_sample_space[21] == len(event)
\* assert sum(weighted_sample_space.values()) == len(sample_space)
SixDiceEventAsserts ==
    /\ pc = "six_dice_counted"
    /\ LET got == getitem(weighted_sample_space, mapping_type, 21)
           total == sum_values(SeqOf(DOMAIN got.weights), got.weights)
       IN  /\ weighted_sample_space' = got.weights
           /\ lookup' = [key |-> 21, weight |-> got.weight]
           /\ raised' = IF got.weight = matched /\ total = visited
                        THEN "none" ELSE "AssertionError"
    /\ pc' = "six_dice_asserted"
    /\ UNCHANGED <<sample_space, outcome_type, mapping_type, defined, pending,
                   call, pass, simulation>>

NextHistogram ==
    \/ HistogramStart
    \/ HistogramStep
    \/ SixDiceHistogramStep
    \/ SixDiceWeightAsserts
    \/ SixDiceGetMatchingEvent
    \/ SixDiceTest
    \/ SixDiceEventAsserts

SpecHistogram == InitHistogram /\ [][NextHistogram]_vars

(***************************************************************************)
(* Queries between changes.  The notebook adds outcomes to a set           *)
(* (sample_space.add), increments weights (weighted_sample_space[k] += 1)  *)
(* and binds its two variables to new spaces over and over, calling        *)
(* compute_event_probability in between.  Here these steps follow each     *)
(* other in any order and number on the coin spaces.  A set the state     *)
(* holds is a value: removing an outcome in place and binding the variable *)
(* to the smaller set give the same state.                                 *)
(***************************************************************************)
CoinOutcomes == FairCoin

\* the literal mappings a variable is bound to
CoinDicts ==
    {BiasedCoin} \cup UNION {[K -> 0..MaxWeight] : K \in SUBSET CoinOutcomes}

InitSequence == InitCoin /\ NoCall /\ NoPass /\ NoSimulation

\* sample_space.add(outcome)
AddOutcome ==
    /\ \E outcome \in CoinOutcomes : sample_space' = sample_space \cup {outcome}
    /\ pc' = "add"
    /\ UNCHANGED <<outcome_type, weighted_sample_space, mapping_type, defined,
                   pending, call, raised, lookup, pass, simulation>>

\* weighted_sample_space[key] += 1: a dict raises KeyError on a missing key
IncrementWeight ==
    /\ \E key \in CoinOutcomes :
         /\ key \in DOMAIN weighted_sample_space =>
               weighted_sample_space[key] < MaxWeight
         /\ IF key \in DOMAIN weighted_sample_space \/ mapping_type = "defaultdict"
            THEN /\ weighted_sample_space' = increment(weighted_sample_space, key)
                 /\ raised' = "none"
            ELSE /\ weighted_sample_space' = weighted_sample_space
                 /\ raised' = "KeyError"
    /\ pc' = "increment"
    /\ UNCHANGED <<sample_space, outcome_type, mapping_type, defined, pending,
                   call, lookup, pass, simulation>>

\* sample_space = {...}: the variable bound to another set
RebindSet ==
    /\ sample_space' \in SUBSET CoinOutcomes
    /\ pc' = "rebind"
    /\ UNCHANGED <<outcome_type, weighted_sample_space, mapping_type, defined,
                   pending, call, raised, lookup, pass, simulation>>

\* weighted_sample_space = {...} or = defaultdict(int)
RebindMapping ==
    /\ \/ weighted_sample_space' \in CoinDicts /\ mapping_type' = "dict"
       \/ weighted_sample_space' = EmptyDict /\ mapping_type' = "defaultdict"
    /\ pc' = "rebind"
    /\ UNCHANGED <<sample_space, outcome_type, defined, pending, call, raised,
                   lookup, pass, simulation>>

NextSequence ==
    \/ Query
    \/ AddOutcome
    \/ IncrementWeight
    \/ RebindSet
    \/ RebindMapping

SpecSequence == InitSequence /\ [][NextSequence]_vars

(***************************************************************************)
(* Measures used to state the properties                                   *)
(***************************************************************************)
\* the elements of the space the last call received
PassedOutcomes ==
    IF passed = "set" THEN sample_space ELSE DOMAIN weighted_sample_space

\* the outcomes of that space on which the condition c holds
Matching(c) == {o \in PassedOutcomes : Holds(c, o)}

\* one pair per unit of weight: <<k, 1>> .. <<k, n>> for a key k that W maps to n
Copies(K, W) == UNION {{<<k, i>> : i \in 1..W[k]} : k \in K}

\* the total weight of the keys K of W: the units of the positive weights
\* less those of the negative ones
Measure(K, W) ==
    Cardinality(Copies(K, W)) - Cardinality(Copies(K, [k \in K |-> 0 - W[k]]))

TotalWeight == Measure(DOMAIN weighted_sample_space, weighted_sample_space)

PositiveWeights ==
    \A k \in DOMAIN weighted_sample_space : weighted_sample_space[k] >= 1

\* the last call was compute_event_probability on the set / on the mapping
CalledOnSet == pc = "compute_event_probability" /\ passed = "set"
CalledOnDict == pc = "compute_event_probability" /\ passed = "dict"

\* the float x equals the ratio a / b
IsRatio(x, a, b) == x.den > 0 /\ x.num * b = x.den * a

(***************************************************************************)
(* Properties                                                              *)
(***************************************************************************)
\* C1: on a non-empty set S, compute_event_probability(c, S) returns the
\* exact ratio |{o in S : c(o)}| / |S|; on {Heads, Tails} that is 1 for
\* is_heads_or_tails, 1/2 for is_heads and is_tails, 0 for is_neither.
C1_SetProbabilityIsRatio ==
    (CalledOnSet /\ sample_space # {}) =>
        /\ raised = "none"
        /\ IsRatio(prob, Cardinality(Matching(event_condition)),
                   Cardinality(sample_space))
        /\ outcome_type = "coin" =>
              /\ event_condition = is_heads_or_tails => prob = [num |-> 1, den |-> 1]
              /\ event_condition = is_heads => prob = [num |-> 1, den |-> 2]
              /\ event_condition = is_tails => prob = [num |-> 1, den |-> 2]
              /\ event_condition = is_neither => prob = [num |-> 0, den |-> 1]

C1_Witness ==
    /\ CalledOnSet
    /\ Cardinality(sample_space) >= 3
    /\ raised = "none"
    /\ prob.num = 2 /\ prob.den = 3

\* C2: on a mapping W with at least one key and positive weights,
\* compute_event_probability(c, W) returns (sum of W[o] over the keys o
\* with c(o)) / (sum of all weights); on {Heads: 4, Tails: 1} that is 4/5
\* for is_heads, 1/5 for is_tails, 1 for is_heads_or_tails, 0 for is_neither.
C2_WeightedProbabilityIsRatio ==
    (CalledOnDict /\ DOMAIN weighted_sample_space # {} /\ PositiveWeights) =>
        /\ raised = "none"
        /\ IsRatio(prob, Measure(Matching(event_condition), weighted_sample_space),
                   TotalWeight)
        /\ outcome_type = "coin" =>
              /\ event_condition = is_heads_or_tails => prob = [num |-> 1, den |-> 1]
              /\ event_condition = is_heads => prob = [num |-> 4, den |-> 5]
              /\ event_condition = is_tails => prob = [num |-> 1, den |-> 5]
              /\ event_condition = is_neither => prob = [num |-> 0, den |-> 1]

C2_Witness ==
    /\ CalledOnDict
    /\ outcome_type = "coin"
    /\ event_condition = is_heads
    /\ prob = [num |-> 4, den |-> 5]

\* C3: get_matching_event(c, S) returns exactly {o in S : c(o)}: a subset of
\* S (of the keys, for a mapping) holding every outcome that satisfies c
\* and none that does not.
C3_MatchingEventIsFilter ==
    pc = "get_matching_event" =>
        /\ event \subseteq PassedOutcomes
        /\ \A o \in PassedOutcomes : o \in event <=> Holds(event_condition, o)

C3_Witness ==
    /\ pc = "get_matching_event"
    /\ passed = "set"
    /\ Cardinality(event) = 2
    /\ Cardinality(sample_space \ event) = 2

\* C4: on a mapping W, get_matching_event applies the condition to keys of
\* W only and returns a set of keys; replacing the weight of any key by any
\* other weight leaves the result the same.
C4_MatchingEventOnKeysOnly ==
    (pc = "get_matching_event" /\ passed = "dict") =>
        /\ condition_args \subseteq DOMAIN weighted_sample_space
        /\ event \subseteq DOMAIN weighted_sample_space
        /\ \A k \in DOMAIN weighted_sample_space, w \in Weights :
              \A order \in IterationOrders(DOMAIN weighted_sample_space) :
                 get_matching_event(
                     event_condition,
                     PyDict(order, [weighted_sample_space EXCEPT ![k] = w]))
                   = event

C4_Witness ==
    /\ pc = "get_matching_event"
    /\ passed = "dict"
    /\ event # {}
    /\ event # DOMAIN weighted_sample_space
    /\ \E k \in event : weighted_sample_space[k] = 0

\* the mapping W counts, for each total v, the outcomes of S whose sum is v
IsHistogramOf(W, S) ==
    /\ DOMAIN W = {sum(o) : o \in S}
    /\ \A v \in DOMAIN W : W[v] = Cardinality({o \in S : sum(o) = v})

\* C5: when weighted_sample_space is the histogram of sample_space under
\* sum, the call with a condition c on the mapping and the call with
\* lambda o: c(sum(o)) on the set have the same outcome for every c: the
\* notebook's assert prob == compute_event_probability(...) never fails,
\* and both calls return a value unless the space is empty.
C5_HistogramEquivalence ==
    (pc = "compare" /\ IsHistogramOf(weighted_sample_space, sample_space)) =>
        /\ raised # "AssertionError"
        /\ sample_space # {} =>
              /\ raised = "none"
              /\ IsRatio(prob,
                         Cardinality({o \in sample_space :
                                        Holds(OfSum(event_condition), o)}),
                         Cardinality(sample_space))
        /\ sample_space = {} => raised = "ZeroDivisionError"

C5_Witness ==
    /\ pc = "compare"
    /\ IsHistogramOf(weighted_sample_space, sample_space)
    /\ Cardinality(DOMAIN weighted_sample_space) < Cardinality(sample_space)
    /\ \E v \in DOMAIN weighted_sample_space : weighted_sample_space[v] >= 2
    /\ raised = "none"
    /\ 0 < prob.num /\ prob.num < prob.den

\* C6: compute_event_probability on an empty set returns no value: it
\* raises ZeroDivisionError, whatever the condition.
C6_EmptySetRaises ==
    (CalledOnSet /\ sample_space = {}) =>
        raised = "ZeroDivisionError" /\ prob = NoValue

C6_Witness ==
    /\ CalledOnSet
    /\ sample_space = {}
    /\ outcome_type = "number"
    /\ event_condition = In(Values)
    /\ raised = "ZeroDivisionError"

\* C7: compute_event_probability on a mapping whose weights sum to zero,
\* the empty mapping included, returns no value: it raises
\* ZeroDivisionError, whatever the condition.
C7_ZeroTotalWeightRaises ==
    (CalledOnDict /\ TotalWeight = 0) =>
        raised = "ZeroDivisionError" /\ prob = NoValue

C7_Witness ==
    /\ CalledOnDict
    /\ TotalWeight = 0
    /\ Cardinality(DOMAIN weighted_sample_space) >= 2
    /\ \E k \in event : weighted_sample_space[k] > 0
    /\ raised = "ZeroDivisionError"

\* C8: a value returned by compute_event_probability for a non-empty set
\* or for a mapping with positive weights lies in [0, 1]: the matching
\* measure is at least 0 and at most the total measure.
C8_ProbabilityInUnitInterval ==
    (pc = "compute_event_probability" /\ raised = "none"
        /\ (passed = "dict" => PositiveWeights)) =>
        /\ prob.den > 0
        /\ 0 <= prob.num /\ prob.num <= prob.den
        /\ passed = "dict" =>
              /\ 0 <= Measure(Matching(event_condition), weighted_sample_space)
              /\ Measure(Matching(event_condition), weighted_sample_space)
                    <= TotalWeight

C8_Witness ==
    /\ CalledOnDict
    /\ raised = "none"
    /\ PositiveWeights
    /\ \E k \in event : weighted_sample_space[k] >= 2
    /\ 0 < prob.num /\ prob.num < prob.den

\* the space of the last call is a non-empty set, or a mapping with at
\* least one key and positive weights
NonEmptySampleSpace ==
    \/ passed = "set" /\ sample_space # {}
    \/ /\ passed = "dict"
       /\ DOMAIN weighted_sample_space # {}
       /\ PositiveWeights

\* C9: on a non-empty sample space, compute_event_probability(c, S) plus
\* compute_event_probability(not c, S) is 1: the measures of c and of its
\* negation add up to the total measure.
C9_ComplementLaw ==
    (pc = "compute_event_probability" /\ NonEmptySampleSpace) =>
        /\ raised = "none"
        /\ \A space \in Objects(passed) :
              LET negated == compute_event_probability(Not(event_condition), space)
              IN  /\ negated.raised = "none"
                  /\ float_add(prob, negated.value) = Float(1, 1)
        /\ Matching(event_condition) \cup Matching(Not(event_condition))
              = PassedOutcomes
        /\ Matching(event_condition) \cap Matching(Not(event_condition)) = {}

C9_Witness ==
    /\ pc = "compute_event_probability"
    /\ NonEmptySampleSpace
    /\ prob.num = 1 /\ prob.den = 3
    /\ \E space \in Objects(passed) :
          compute_event_probability(Not(event_condition), space).value
             = [num |-> 2, den |-> 3]

\* the space of the last call is a non-empty set, or a mapping without
\* negative weights whose weights do not all vanish
PositiveMeasure ==
    \/ passed = "set" /\ sample_space # {}
    \/ /\ passed = "dict"
       /\ \A k \in DOMAIN weighted_sample_space : weighted_sample_space[k] >= 0
       /\ TotalWeight > 0

\* C10: on a non-empty sample space of numbers (a set, or a mapping whose
\* weights are positive; a weight of 0 beside them does no harm), the
\* probability of the interval condition for [lo - 1, hi + 1] is at least
\* the probability of the interval condition for [lo, hi], for all lo, hi.
C10_IntervalMonotone ==
    (pc = "compute_event_probability" /\ PositiveMeasure
        /\ event_condition.kind = "interval") =>
        /\ raised = "none"
        /\ \A space \in Objects(passed) :
              LET wider == compute_event_probability(
                              Interval(event_condition.lo - 1,
                                       event_condition.hi + 1), space)
              IN  /\ wider.raised = "none"
                  /\ float_le(prob, wider.value)

C10_Witness ==
    /\ pc = "compute_event_probability"
    /\ NonEmptySampleSpace
    /\ event_condition.kind = "interval"
    /\ event_condition.lo < event_condition.hi
    /\ 0 < prob.num /\ prob.num < prob.den
    /\ \E space \in Objects(passed) :
          LET wider == compute_event_probability(
                          Interval(event_condition.lo - 1,
                                   event_condition.hi + 1), space)
          IN  wider.value # prob /\ float_le(prob, wider.value)

\* the last call was made with lambda x: is_in_interval(x, lo, hi)
CalledWithInterval ==
    /\ pc \in {"get_matching_event", "compute_event_probability"}
    /\ event_condition.kind = "interval"

\* C11: is_in_interval(number, minimum, maximum) is true exactly when
\* minimum <= number <= maximum: of the numbers it is applied to, the event
\* holds those within the ends and no other; both ends of an interval
\* minimum <= maximum are in, minimum - 1 and maximum + 1 are out.
C11_IntervalInclusive ==
    CalledWithInterval =>
        LET minimum == event_condition.lo
            maximum == event_condition.hi
        IN  /\ \A number \in condition_args :
                  number \in event <=> (minimum <= number /\ number <= maximum)
            /\ minimum <= maximum =>
                  \A number \in condition_args \cap {minimum, maximum} :
                      number \in event
            /\ \A number \in condition_args \cap {minimum - 1, maximum + 1} :
                  number \notin event

C11_Witness ==
    /\ CalledWithInterval
    /\ event_condition.lo < event_condition.hi
    /\ {event_condition.lo, event_condition.hi} \subseteq event
    /\ event_condition.hi + 1 \in condition_args \ event

\* the last call was made with an interval whose ends are reversed, lo > hi
CalledWithReversedInterval ==
    /\ CalledWithInterval
    /\ event_condition.lo > event_condition.hi

\* C12 as stated: an interval condition with lo > hi raises
\* InvalidIntervalError when it is used.
C12_ReversedIntervalRaises ==
    CalledWithReversedInterval => raised = "InvalidIntervalError"

\* C12: an interval condition with lo > hi raises nothing of its own: it is
\* evaluated and is false on every number, so the matching event is empty and
\* the probability is 0 (the division still fails on a space of no weight).
C12_ReversedIntervalIsEmpty ==
    CalledWithReversedInterval =>
        /\ event = {}
        /\ raised \in {"none", "ZeroDivisionError"}
        /\ pc = "get_matching_event" => raised = "none"
        /\ (pc = "compute_event_probability" /\ raised = "none") =>
              prob = [num |-> 0, den |-> 1]
        /\ raised = "ZeroDivisionError" =>
              IF passed = "set" THEN sample_space = {} ELSE TotalWeight = 0

C12_Witness ==
    /\ CalledWithReversedInterval
    /\ pc = "compute_event_probability"
    /\ \E number \in condition_args :
          event_condition.hi <= number /\ number <= event_condition.lo
    /\ raised = "none"
    /\ prob = [num |-> 0, den |-> 1]

\* C13 as stated: a weighted_sample_space built as defaultdict(int) never
\* holds a key of weight 0, whatever increments, lookups and queries ran.
C13_NoZeroWeightStored ==
    mapping_type = "defaultdict" => PositiveWeights

\* the step is a call of get_matching_event or compute_event_probability
\* (alone, or in the pair of the weighted/unweighted comparison)
IsCall ==
    pc' \in {"get_matching_event", "compute_event_probability", "compare"}

\* C14: get_matching_event and compute_event_probability leave the sample
\* space they are given as it was: the set keeps its elements, the mapping
\* (a dict or a defaultdict) its keys and weights. A sequence of calls is a
\* sequence of such steps.
C14_CallsLeaveSpacesUnchanged ==
    [][IsCall =>
          /\ sample_space' = sample_space
          /\ weighted_sample_space' = weighted_sample_space
          /\ mapping_type' = mapping_type]_vars

C14_Witness ==
    /\ CalledOnDict
    /\ mapping_type = "defaultdict"
    /\ Cardinality(event) >= 2
    /\ event # DOMAIN weighted_sample_space

\* conditions written otherwise than c that agree with c on every outcome
\* of the space passed: its table of truth values, and its double negation
Equivalents(c) == {In(Matching(c)), Not(Not(c))}

\* C15: compute_event_probability is deterministic and depends on the
\* condition through its truth values only: on the space of the last call,
\* in either iteration order, the same condition and every condition that
\* agrees with it on all outcomes give the result the call gave.
C15_SameTruthValuesSameResult ==
    pc = "compute_event_probability" =>
        \A space \in Objects(passed) :
            \A c \in {event_condition} \cup Equivalents(event_condition) :
                LET again == compute_event_probability(c, space)
                IN  again.raised = raised /\ again.value = prob

C15_Witness ==
    /\ CalledOnSet
    /\ event_condition.kind = "of_sum"
    /\ Cardinality(sample_space) >= 3
    /\ Cardinality(Objects(passed)) = 2
    /\ raised = "none"
    /\ 0 < prob.num /\ prob.num < prob.den

\* C16: on the 16 sequences of four children over {Boy, Girl},
\* compute_event_probability(has_two_boys, sample_space) returns
\* 6 / 16 = 0.375, the float 3/8.
C16_TwoBoysOfFour ==
    (CalledOnSet /\ outcome_type = "children" /\ event_condition = has_two_boys) =>
        /\ Cardinality(sample_space) = 16
        /\ Cardinality(event) = 6
        /\ raised = "none"
        /\ IsRatio(prob, 6, 16)
        /\ prob = [num |-> 3, den |-> 8]

C16_Witness ==
    /\ CalledOnSet
    /\ outcome_type = "children"
    /\ event_condition = has_two_boys
    /\ <<"Boy", "Girl", "Girl", "Boy">> \in event
    /\ <<"Boy", "Boy", "Girl", "Boy">> \in sample_space \ event

\* C17: on the 46656 sequences of six rolls over 1..6, 4332 outcomes have
\* sum 21 and compute_event_probability(has_sum_of_21, sample_space)
\* returns 4332 / 46656.
C17_SixDiceSumOf21 ==
    pc = "six_dice_done" =>
        /\ visited = 46656
        /\ matched = 4332
        /\ raised = "none"
        /\ IsRatio(prob, 4332, 46656)

C17_Witness ==
    /\ pc = "six_dice_done"
    /\ event_condition = has_sum_of_21
    /\ Len(cursor) = 6
    /\ raised = "none"
    /\ 0 < prob.num /\ prob.num < prob.den

\* the last call was compute_event_probability(c, weighted_sample_space)
\* with weighted_sample_space = generate_coin_sample_space(), 10 flips
CalledOnTenFlips(c) ==
    /\ CalledOnDict
    /\ outcome_type = "heads_count"
    /\ Len(cursor) = 10
    /\ event_condition = c

\* C18: on the head-count histogram of 10 coin flips (total weight 1024),
\* compute_event_probability(lambda x: is_in_interval(x, 8, 10), ...)
\* returns 56 / 1024 = 7/128 = 0.0546875.
C18_EightToTenHeads ==
    CalledOnTenFlips(Interval(8, 10)) =>
        /\ TotalWeight = 1024
        /\ Measure(event, weighted_sample_space) = 56
        /\ raised = "none"
        /\ IsRatio(prob, 56, 1024)
        /\ prob = [num |-> 7, den |-> 128]

C18_Witness ==
    /\ CalledOnTenFlips(Interval(8, 10))
    /\ event = {8, 9, 10}
    /\ weighted_sample_space[9] = 10
    /\ raised = "none"

\* C19: on the same histogram, the condition not is_in_interval(x, 3, 7)
\* gives 112 / 1024 = 7/64 = 0.109375, exactly twice what
\* is_in_interval(x, 8, 10) gives.
C19_OutsideThreeToSeven ==
    CalledOnTenFlips(Not(Interval(3, 7))) =>
        /\ Measure(event, weighted_sample_space) = 112
        /\ raised = "none"
        /\ IsRatio(prob, 112, 1024)
        /\ prob = [num |-> 7, den |-> 64]
        /\ \A space \in Objects(passed) :
              LET upper == compute_event_probability(Interval(8, 10), space)
              IN  /\ upper.raised = "none"
                  /\ prob = float_add(upper.value, upper.value)

C19_Witness ==
    /\ CalledOnTenFlips(Not(Interval(3, 7)))
    /\ event = {0, 1, 2, 8, 9, 10}
    /\ raised = "none"
    /\ prob.num > 0

\* {o: 1 for o in S}
UnitWeights(S) == [o \in S |-> 1]

\* C20: a non-empty set S and the mapping {o: 1 for o in S} are
\* interchangeable: compute_event_probability(c, S) equals
\* compute_event_probability(c, {o: 1 for o in S}) for every condition c.
C20_SetAsUnitWeights ==
    (CalledOnSet /\ sample_space # {}) =>
        \A order \in IterationOrders(sample_space) :
            LET weighted == compute_event_probability(
                                event_condition,
                                PyDict(order, UnitWeights(sample_space)))
            IN  weighted.raised = raised /\ weighted.value = prob

C20_Witness ==
    /\ CalledOnSet
    /\ outcome_type = "tuple"
    /\ Cardinality(sample_space) >= 3
    /\ Cardinality(event) >= 2
    /\ raised = "none"
    /\ prob.num < prob.den

\* the outcomes the histogram loop has processed
Processed == sample_space \ pending

\* sum(weighted_sample_space.values())
WeightSum ==
    sum_values(SeqOf(DOMAIN weighted_sample_space), weighted_sample_space)

\* C21: the histogram loop keeps the measure. After every step the weights
\* sum to the number of outcomes processed and each weight W[v] is the
\* number of processed outcomes of sum v; when the loop ends that is
\* |sample_space| and the size of the event {o : sum(o) = v}. On six rolls
\* the asserts on the weights of 6, 36 and 21 and on the sum pass.
C21_HistogramKeepsMeasure ==
    /\ pc \in {"histogram_loop", "histogram_done"} =>
          /\ WeightSum = Cardinality(Processed)
          /\ \A v \in DOMAIN weighted_sample_space :
                weighted_sample_space[v] =
                    Cardinality({o \in Processed : sum(o) = v})
          /\ pc = "histogram_done" => Processed = sample_space
    /\ pc = "six_dice_histogram" => WeightSum = visited
    /\ pc = "six_dice_histogram_done" =>
          WeightSum = visited /\ visited = 46656
    /\ pc = "six_dice_weights_asserted" =>
          /\ raised = "none"
          /\ weighted_sample_space[6] = 1 /\ weighted_sample_space[36] = 1
    /\ pc = "six_dice_asserted" =>
          /\ raised = "none"
          /\ weighted_sample_space[21] = matched
          /\ WeightSum = visited /\ visited = 46656

C21_Witness ==
    /\ pc = "six_dice_asserted"
    /\ lookup = [key |-> 21, weight |-> 4332]
    /\ WeightSum = 46656

RECURSIVE Binomial(_, _)
\* the binomial coefficient C(n, k), by Pascal's rule
Binomial(n, k) ==
    IF k = 0 \/ k = n THEN 1 ELSE Binomial(n - 1, k - 1) + Binomial(n - 1, k)

\* generate_coin_sample_space(n) has just returned W: the keys of W are the
\* head counts 0..n, W[k] is the number of length-n sequences with k Heads,
\* which is C(n, k), the weights sum to 2^n, W[n] = 1 and W[n - 1] = n
ReturnedIsBinomial ==
    pc = "histogram_done" =>
        LET n == Len(cursor)
            W == weighted_sample_space
        IN  /\ DOMAIN W = 0..n
            /\ \A k \in 0..n :
                  /\ W[k] = Cardinality({coin_flips \in [1..n -> ToSet(coin_sides)] :
                                           heads_count(coin_flips) = k})
                  /\ W[k] = Binomial(n, k)
            /\ WeightSum = 2 ^ n
            /\ W[n] = 1
            /\ n >= 1 => W[n - 1] = n

\* C23: for every num_flips n (0..10 here), generate_coin_sample_space(n)
\* terminates, and the mapping it returns has the keys 0..n with weight
\* C(n, k) on k, summing to 2^n, with weight[n] = 1 and weight[n - 1] = n.
C23_CoinSampleSpaceIsBinomial ==
    /\ []ReturnedIsBinomial
    /\ <>(pc # "generate_coin_sample_space")

C23_Witness ==
    /\ pc = "histogram_done"
    /\ Len(cursor) = 10
    /\ weighted_sample_space[10] = 1
    /\ weighted_sample_space[9] = 10
    /\ weighted_sample_space[5] = 252

\* C24: the three constructions of the four-children sample space give one
\* set, the 16 tuples of length 4 over {Boy, Girl}: the nested loops build
\* it, and both asserts comparing it with set(product(*(4 * [...]))) and
\* with set(product(..., repeat=4)) pass.
C24_ThreeConstructionsAgree ==
    /\ pc = "children_loops" => sample_space \subseteq Families
    /\ pc \in {"children_built", "children_star_asserted", "children_asserted"} =>
          /\ sample_space = Families
          /\ Cardinality(sample_space) = 16
          /\ product_star(repeat_list(NumChildren, possible_children)) = Families
          /\ product_repeat(possible_children, NumChildren) = Families
    /\ pc \in {"children_star_asserted", "children_asserted"} => raised = "none"

C24_Witness ==
    /\ pc = "children_asserted"
    /\ raised = "none"
    /\ <<"Girl", "Boy", "Girl", "Boy">> \in sample_space

\* C25: nothing is cached between queries. In any sequence of calls of
\* compute_event_probability and changes of the sample spaces (an outcome
\* added, a weight incremented, a variable bound to another space, which
\* covers an outcome removed), every call gives the ratio for the space as
\* it is when the call is made, whatever the earlier calls gave: matching
\* outcomes over outcomes for the set, matching weight over total weight
\* for the mapping, ZeroDivisionError when the denominator is 0.
C25_NoCachingBetweenQueries ==
    [][pc' = "compute_event_probability" =>
         LET S == IF passed' = "set" THEN sample_space
                  ELSE DOMAIN weighted_sample_space
             M == {o \in S : Holds(event_condition', o)}
             total == IF passed' = "set" THEN Cardinality(S)
                      ELSE Measure(S, weighted_sample_space)
             part == IF passed' = "set" THEN Cardinality(M)
                     ELSE Measure(M, weighted_sample_space)
         IN  IF total = 0 THEN raised' = "ZeroDivisionError"
             ELSE raised' = "none" /\ IsRatio(prob', part, total)]_vars

\* a call on a defaultdict that rebinding and increments alone produce,
\* giving the ratio of its weights
C25_Witness ==
    /\ CalledOnDict
    /\ event_condition = is_tails
    /\ mapping_type = "defaultdict"
    /\ weighted_sample_space = [o \in FairCoin |->
                                   IF o = "Tails" THEN MaxWeight ELSE 1]
    /\ IsRatio(prob, MaxWeight, MaxWeight + 1)

\* C26: for generate_coin_sample_space(num_flips=20), whose weights sum to
\* 2^20 = 1048576, and the condition 'count not in [5, 15]',
\* compute_event_probability returns 12392/1048576; that is strictly less
\* than the 112/1024 it returns for ten flips and 'count not in [3, 7]'.
C26_TwentyFlipsOutsideInterval ==
    CalledOnDict =>
        /\ raised = "none"
        /\ Len(cursor) = DefaultNumFlips =>
              /\ event_condition = Not(Interval(3, 7))
              /\ WeightSum = 1024
              /\ IsRatio(prob, 112, 1024)
        /\ Len(cursor) = MoreFlips =>
              /\ event_condition = Not(Interval(5, 15))
              /\ WeightSum = 1048576
              /\ sum_values(SeqOf(event), weighted_sample_space) = 12392
              /\ IsRatio(prob, 12392, 1048576)
              /\ \A ten \in {[num |-> 7, den |-> 64]} :
                    /\ IsRatio(ten, 112, 1024)
                    /\ float_le(prob, ten)
                    /\ prob # ten

C26_Witness ==
    /\ CalledOnDict
    /\ Len(cursor) = MoreFlips
    /\ event = (0..4) \cup (16..20)
    /\ prob = [num |-> 1549, den |-> 131072]

\* the last call was compute_probability
CalledFirstEvaluator == pc = "compute_probability"

\* the matching keys have the same share of the total weight as of the keys
SameShare ==
    Measure(Matching(event_condition), weighted_sample_space)
            * Cardinality(PassedOutcomes)
        = Cardinality(Matching(event_condition)) * TotalWeight

\* C27: compute_probability ignores weights. On every non-empty space it
\* returns (matching outcomes or keys) / (outcomes or keys). It agrees with
\* compute_event_probability on every set; on a mapping the two agree only
\* when the matching keys have the same share of the total weight as of the
\* keys (and do agree then, when the total weight is not 0). On
\* {Heads: 4, Tails: 1} and is_heads it returns 1/2 where
\* compute_event_probability returns 4/5.
C27_FirstEvaluatorIgnoresWeights ==
    CalledFirstEvaluator =>
        /\ PassedOutcomes # {} =>
              /\ raised = "none"
              /\ IsRatio(prob, Cardinality(Matching(event_condition)),
                         Cardinality(PassedOutcomes))
        /\ \A space \in Objects(passed) :
              LET weighted == compute_event_probability(event_condition, space)
                  agree == /\ raised = "none"
                           /\ weighted.raised = "none"
                           /\ weighted.value = prob
              IN  /\ passed = "set" =>
                        /\ weighted.raised = raised
                        /\ weighted.value = prob
                  /\ passed = "dict" =>
                        /\ agree => SameShare
                        /\ (SameShare /\ TotalWeight # 0 /\ PassedOutcomes # {})
                              => agree
                  /\ (outcome_type = "coin" /\ passed = "dict"
                        /\ weighted_sample_space = BiasedCoin
                        /\ event_condition = is_heads) =>
                        /\ prob = [num |-> 1, den |-> 2]
                        /\ weighted.value = [num |-> 4, den |-> 5]

\* compute_probability called on the biased coin with is_heads
C27_Witness ==
    /\ CalledFirstEvaluator
    /\ outcome_type = "coin"
    /\ passed = "dict"
    /\ weighted_sample_space = BiasedCoin
    /\ event_condition = is_heads
    /\ prob = [num |-> 1, den |-> 2]

\* the elements of the list that sample_space holds on which c holds
MatchingInList(c) == {o \in ToSet(sample_space) : Holds(c, o)}

\* C28: compute_event_probability counts only when the type of the space is
\* exactly set: on set(...) it returns matching / all. Every other space
\* takes the weighted branch, so on a list, a tuple or a frozenset with at
\* least one matching outcome the call ends in an exception (TypeError or
\* IndexError from generic_sample_space[outcome], else AttributeError from
\* .values()) and returns no probability.
C28_OnlyExactSetsAreCounted ==
    pc = "compute_event_probability" =>
        /\ (passed = "set" /\ sample_space # <<>>) =>
              /\ raised = "none"
              /\ IsRatio(prob, Cardinality(MatchingInList(event_condition)),
                         Cardinality(ToSet(sample_space)))
        /\ (passed # "set" /\ MatchingInList(event_condition) # {}) =>
              /\ raised \in {"TypeError", "IndexError", "AttributeError"}
              /\ prob = NoValue
              /\ passed = "frozenset" => raised = "TypeError"
              /\ outcome_type = "coin" => raised = "TypeError"

\* a list of ints with a repetition whose matching outcome is a position of
\* the list: the subscript succeeds and .values() fails
C28_Witness ==
    /\ pc = "compute_event_probability"
    /\ passed = "list"
    /\ outcome_type = "number"
    /\ sample_space = <<1, 1, 0>>
    /\ event = {1}
    /\ raised = "AttributeError"
    /\ prob = NoValue

\* len(coin_flips) and the number of 1s in it
LenFlips == BagCardinality(flips)
OnesInFlips == CopiesIn(1, flips)

====
